---- MODULE Spec2Model ----
(***************************************************************************)
(* Model of manager/scaling_manager/server_classes.py: the Server wrapper, *)
(* the ServerManagerThread control loop (run) and the allocation path      *)
(* (get_available_server), which request threads call while the loop runs. *)
(* No lock exists in the source, so every statement of the loop and every  *)
(* load/store of get_available_server is a separate step. The singleton    *)
(* bookkeeping of get_instance and __init__ is modelled on its own.         *)
(***************************************************************************)
EXTENDS Integers, Sequences, FiniteSets, TLC

\* ---------------------------------------------------------------- bounds
\* Number of Server objects that can ever exist (task arns handed out).
MaxServers == 2
\* Largest number of tasks get_tasks() finds running at construction.
MaxInitServers == 2
\* Largest available_capacity a /health/ response carries.
MaxCapacity == 2
\* Largest DOWNSCALE_MARGIN of the configurations explored.
MaxMargin == 2
\* Number of request threads calling get_available_server().
NumAllocators == 2
\* Total number of get_available_server() calls in a run.
MaxCalls == 1
\* Calls made by the request threads while run() is not yet started.
MaxEarlyCalls == 2

\* Number of threads that ask for the ServerManagerThread at process start.
MaxCallers == 3
\* Number of Server objects that can ever exist in a run of the loop on its own.
MaxLoopServers == 3

\* identities of Server objects
Servers == 1 .. (IF MaxServers > MaxLoopServers THEN MaxServers ELSE MaxLoopServers)
Allocators == 1 .. NumAllocators
Callers == 1 .. MaxCallers

\* result of a get_available_server() call that has not returned / that raised
NoResult == 0
IndexError == -1

\* ServerManagerThread.__shared_instance == None
NoInstance == 0
\* Exception("ServerManagerThread is Singleton class!")
SingletonError == -2

VARIABLES
    available_servers,            \* self.available_servers (list of Server)
    standby_servers,              \* self.standby_servers
    total_available_capacity,     \* self.total_available_capacity
    upscale_margin,               \* self.upscale_margin
    downscale_margin,             \* self.downscale_margin
    health_capacities,            \* the available_capacity values /health/ can answer
    cluster_size,                 \* number of tasks the cluster will ever run
    available_capacity,           \* Server.available_capacity, per server
    ready_to_close,               \* Server.ready_to_close, per server
    pc,                           \* position of run() in its cycle
    i,                            \* position of the for loop run() is in
    new_total_available_capacity, \* local of run()
    unresponsive_servers,         \* local of run()
    remaining_standby_servers,    \* local of run()
    scale_log,                    \* what the cycle printed: Upscale / Downscale
    next_task,                    \* next task arn launch_task() returns
    create_requests,              \* add_server() calls made in this cycle
    terminate_requests,           \* terminate_ec2() calls made, per Server still held
    terminated,                   \* Servers still held whose terminate_ec2() succeeded
    poll_failed,                  \* servers whose last update_state() returned False
    reported_sum,                 \* capacities the active servers' /health/ reported this cycle
    closeable_at_start,           \* standby servers with ready_to_close at the cycle's start
    apc,                          \* position of each get_available_server() caller
    aidx,                         \* its max_available_server_index
    aobj,                         \* the Server it loaded for the -= 1
    aval,                         \* the available_capacity it loaded
    result,                       \* what its call returned, until the caller takes it
    calls_left,                   \* get_available_server() calls still to come
    shared_instance,              \* ServerManagerThread.__shared_instance
    created,                      \* objects whose __init__ built a ServerManagerThread
    gpc,                          \* position of each thread asking for the instance
    gvia,                         \* how it asks: get_instance() or ServerManagerThread()
    gresult                       \* what its call returned or raised

reg_vars == <<available_servers, standby_servers, total_available_capacity>>
cfg_vars == <<upscale_margin, downscale_margin, health_capacities, cluster_size>>
srv_vars == <<available_capacity, ready_to_close>>
loop_vars == <<new_total_available_capacity, unresponsive_servers,
               remaining_standby_servers, scale_log>>
env_vars == <<next_task, create_requests, terminate_requests, terminated>>
obs_vars == <<poll_failed, reported_sum, closeable_at_start>>
alloc_vars == <<apc, aidx, aobj, aval, result, calls_left>>
inst_vars == <<shared_instance, created, gpc, gvia, gresult>>

vars == <<reg_vars, cfg_vars, srv_vars, pc, i, loop_vars, env_vars, obs_vars, alloc_vars,
          inst_vars>>

\* ------------------------------------------------------------- list helpers
Range(seq) == {seq[k] : k \in 1 .. Len(seq)}

\* list.pop(k) (1-based k): the list without its k-th element
Pop(seq, k) == SubSeq(seq, 1, k - 1) \o SubSeq(seq, k + 1, Len(seq))

\* list.remove(x): the list without the first occurrence of x
Remove(seq, x) ==
    LET k == CHOOSE j \in 1 .. Len(seq) :
                 seq[j] = x /\ \A m \in 1 .. (j - 1) : seq[m] # x
    IN  Pop(seq, k)

\* ---------------------------------------------- get_available_server_index
\* for i in range(1, len): if cap[i] > cap[max]: max = i   (1-based here, so
\* the empty list yields 1, Python's 0, without reading any element). The scan
\* is taken as one step; what a caller does with the index afterwards is not.
RECURSIVE scan_from(_, _, _)
scan_from(servers, k, best) ==
    IF k > Len(servers)
    THEN best
    ELSE scan_from(servers, k + 1,
                   IF available_capacity[servers[k]] > available_capacity[servers[best]]
                   THEN k ELSE best)

get_available_server_index == scan_from(available_servers, 2, 1)

\* ---------------------------------------------------------------- Init
\* ServerManagerThread.__init__: the running tasks become available servers,
\* each Server constructed with available_capacity 0 and ready_to_close False;
\* an exception while listing or wrapping them leaves the list empty.
InitWith(size, sizes, margins, capacities, calls) ==
    /\ cluster_size = size
    /\ \E n \in sizes :
          /\ n <= size
          /\ available_servers = [k \in 1 .. n |-> k]
          /\ next_task = n + 1
    /\ standby_servers = <<>>
    /\ total_available_capacity = 0
    /\ \E m \in margins :
          /\ upscale_margin = m[1]
          /\ downscale_margin = m[2]
    /\ health_capacities = capacities
    /\ available_capacity = [s \in Servers |-> 0]
    /\ ready_to_close = [s \in Servers |-> FALSE]
    /\ pc = "poll_active"
    /\ i = 1
    /\ new_total_available_capacity = 0
    /\ unresponsive_servers = <<>>
    /\ remaining_standby_servers = <<>>
    /\ scale_log = "None"
    /\ create_requests = 0
    /\ terminate_requests = [s \in Servers |-> 0]
    /\ terminated = {}
    /\ poll_failed = {}
    /\ reported_sum = 0
    /\ closeable_at_start = {}
    /\ apc = [a \in Allocators |-> "idle"]
    /\ aidx = [a \in Allocators |-> 0]
    /\ aobj = [a \in Allocators |-> 0]
    /\ aval = [a \in Allocators |-> 0]
    /\ result = [a \in Allocators |-> NoResult]
    /\ calls_left = calls

\* the settings explored: 0 <= UPSCALE_MARGIN < DOWNSCALE_MARGIN <= MaxMargin
Margins == {m \in (0 .. MaxMargin) \X (1 .. MaxMargin) : m[1] < m[2]}

\* the one ServerManagerThread exists (line 74) and nobody is constructing another
InitMade ==
    /\ shared_instance = 1
    /\ created = {1}
    /\ gpc = [t \in Callers |-> "idle"]
    /\ gvia = [t \in Callers |-> "none"]
    /\ gresult = [t \in Callers |-> NoResult]

Init ==
    /\ InitWith(MaxServers, 0 .. MaxInitServers, Margins, 0 .. MaxCapacity, MaxCalls)
    /\ InitMade

\* ------------------------------------------------------ Server.update_state
\* The /health/ request answered c and r: both fields are stored and True is
\* returned. An EC2 instance that was terminated answers no request.
update_state_ok(s, c, r) ==
    /\ s \notin terminated
    /\ ready_to_close' = [ready_to_close EXCEPT ![s] = r]
    /\ available_capacity' = [available_capacity EXCEPT ![s] = c]
    /\ poll_failed' = poll_failed \ {s}

\* An exception was caught and False is returned. ready_to_close is stored
\* before available_capacity is looked up, so a response without that key has
\* stored its flag r; when the request itself raised (as it does for a
\* terminated instance) nothing is stored and r is the old flag.
update_state_failed(s, r) ==
    /\ s \in terminated => r = ready_to_close[s]
    /\ ready_to_close' = [ready_to_close EXCEPT ![s] = r]
    /\ poll_failed' = poll_failed \cup {s}

\* -------------------------------------------------------- remove_server
\* terminate_ec2(redundant_server.ec2_id); the bool it returns is ignored by run()
remove_server(s, ok) ==
    /\ terminate_requests' = [terminate_requests EXCEPT ![s] = @ + 1]
    /\ terminated' = IF ok THEN terminated \cup {s} ELSE terminated

\* ------------------------------------------------------------ run(): poll
\* for s in self.available_servers: s.update_state() returned True
PollActiveOk ==
    /\ pc = "poll_active"
    /\ i <= Len(available_servers)
    /\ \E c \in health_capacities, r \in BOOLEAN :
          /\ update_state_ok(available_servers[i], c, r)
          /\ reported_sum' = reported_sum + c
    /\ pc' = "acc_active"
    /\ UNCHANGED <<reg_vars, cfg_vars, inst_vars, i, loop_vars, env_vars, closeable_at_start, alloc_vars>>

\* s.update_state() returned False: capacity forced to 0, s recorded
PollActiveFailed ==
    /\ pc = "poll_active"
    /\ i <= Len(available_servers)
    /\ \E r \in BOOLEAN : update_state_failed(available_servers[i], r)
    /\ available_capacity' = [available_capacity EXCEPT ![available_servers[i]] = 0]
    /\ unresponsive_servers' = Append(unresponsive_servers, available_servers[i])
    /\ pc' = "acc_active"
    /\ UNCHANGED <<reg_vars, cfg_vars, inst_vars, i, new_total_available_capacity,
                   remaining_standby_servers, scale_log, env_vars, reported_sum,
                   closeable_at_start, alloc_vars>>

\* new_total_available_capacity += s.available_capacity
AccumulateActive ==
    /\ pc = "acc_active"
    /\ new_total_available_capacity' =
          new_total_available_capacity + available_capacity[available_servers[i]]
    /\ i' = i + 1
    /\ pc' = "poll_active"
    /\ UNCHANGED <<reg_vars, cfg_vars, inst_vars, srv_vars, unresponsive_servers,
                   remaining_standby_servers, scale_log, env_vars, obs_vars, alloc_vars>>

\* self.total_available_capacity = new_total_available_capacity
CommitTotal ==
    /\ pc = "poll_active"
    /\ i > Len(available_servers)
    /\ total_available_capacity' = new_total_available_capacity
    /\ i' = 1
    /\ pc' = IF Len(standby_servers) = 0 THEN "decide" ELSE "poll_standby"
    /\ reported_sum' = 0
    /\ UNCHANGED <<available_servers, standby_servers, cfg_vars, inst_vars, srv_vars, loop_vars,
                   env_vars, poll_failed, closeable_at_start, alloc_vars>>

AfterStandbyPoll == IF i + 1 > Len(standby_servers) THEN "decide" ELSE "poll_standby"

\* for s in self.standby_servers: s.update_state() returned True
PollStandbyOk ==
    /\ pc = "poll_standby"
    /\ \E c \in health_capacities, r \in BOOLEAN :
          /\ update_state_ok(standby_servers[i], c, r)
    /\ i' = i + 1
    /\ pc' = AfterStandbyPoll
    /\ UNCHANGED <<reg_vars, cfg_vars, inst_vars, loop_vars, env_vars, reported_sum,
                   closeable_at_start, alloc_vars>>

\* s.update_state() returned False: s recorded, its capacity left as it was
PollStandbyFailed ==
    /\ pc = "poll_standby"
    /\ \E r \in BOOLEAN : update_state_failed(standby_servers[i], r)
    /\ unresponsive_servers' = Append(unresponsive_servers, standby_servers[i])
    /\ i' = i + 1
    /\ pc' = AfterStandbyPoll
    /\ UNCHANGED <<reg_vars, cfg_vars, inst_vars, available_capacity, new_total_available_capacity,
                   remaining_standby_servers, scale_log, env_vars, reported_sum,
                   closeable_at_start, alloc_vars>>

\* -------------------------------------------------- run(): scale decision
\* the comparison written as <=
UpscaleConditionInclusive == total_available_capacity <= upscale_margin

\* the comparison with the margin lowered by one
UpscaleConditionBelowMargin == total_available_capacity < upscale_margin - 1

\* if self.total_available_capacity < self.upscale_margin
UpscaleCondition == total_available_capacity < upscale_margin

\* the test without its len(...) > 1 operand
DownscaleConditionAnyLength == total_available_capacity > downscale_margin

\* elif (self.total_available_capacity > self.downscale_margin) & (len(self.available_servers)>1)
DownscaleCondition ==
    /\ total_available_capacity > downscale_margin
    /\ Len(available_servers) > 1

\* entering the standby termination loop: remaining_standby_servers = []
ToEvict ==
    /\ pc' = "evict"
    /\ i' = 1
    /\ remaining_standby_servers' = <<>>

\* add_server(): launch_ecs_instance, launch_task and Server(task) all succeeded
UpscaleAddServer ==
    /\ pc = "decide"
    /\ UpscaleCondition
    /\ Len(standby_servers) = 0
    /\ next_task <= cluster_size
    /\ available_servers' = Append(available_servers, next_task)
    /\ next_task' = next_task + 1
    /\ create_requests' = create_requests + 1
    /\ scale_log' = "Upscale"
    /\ ToEvict
    /\ UNCHANGED <<standby_servers, total_available_capacity, cfg_vars, inst_vars, srv_vars,
                   new_total_available_capacity, unresponsive_servers,
                   terminate_requests, terminated, obs_vars, alloc_vars>>

\* add_server() appending the Server before the calls that can raise
UpscaleAddServerFailedAppends ==
    /\ pc = "decide"
    /\ UpscaleCondition
    /\ Len(standby_servers) = 0
    /\ next_task <= cluster_size
    /\ available_servers' = Append(available_servers, next_task)
    /\ create_requests' = create_requests + 1
    /\ scale_log' = "Upscale"
    /\ ToEvict
    /\ UNCHANGED <<standby_servers, total_available_capacity, cfg_vars, inst_vars, srv_vars,
                   new_total_available_capacity, unresponsive_servers, next_task,
                   terminate_requests, terminated, obs_vars, alloc_vars>>

\* add_server(): one of the calls raised; add_server returns False
UpscaleAddServerFailed ==
    /\ pc = "decide"
    /\ UpscaleCondition
    /\ Len(standby_servers) = 0
    /\ create_requests' = create_requests + 1
    /\ scale_log' = "Upscale"
    /\ ToEvict
    /\ UNCHANGED <<reg_vars, cfg_vars, inst_vars, srv_vars, new_total_available_capacity,
                   unresponsive_servers, next_task, terminate_requests, terminated,
                   obs_vars, alloc_vars>>

\* the recall written with pop() instead of pop(0)
UpscaleRecallLast ==
    /\ pc = "decide"
    /\ UpscaleCondition
    /\ Len(standby_servers) # 0
    /\ standby_servers' = SubSeq(standby_servers, 1, Len(standby_servers) - 1)
    /\ total_available_capacity' =
          total_available_capacity + available_capacity[standby_servers[Len(standby_servers)]]
    /\ available_servers' = Append(available_servers, standby_servers[Len(standby_servers)])
    /\ scale_log' = "Upscale"
    /\ ToEvict
    /\ UNCHANGED <<cfg_vars, inst_vars, srv_vars, new_total_available_capacity,
                   unresponsive_servers, env_vars, obs_vars, alloc_vars>>

\* s = self.standby_servers.pop(0); total += s.available_capacity; available.append(s)
UpscaleRecall ==
    /\ pc = "decide"
    /\ UpscaleCondition
    /\ Len(standby_servers) # 0
    /\ standby_servers' = Tail(standby_servers)
    /\ total_available_capacity' =
          total_available_capacity + available_capacity[Head(standby_servers)]
    /\ available_servers' = Append(available_servers, Head(standby_servers))
    /\ scale_log' = "Upscale"
    /\ ToEvict
    /\ UNCHANGED <<cfg_vars, inst_vars, srv_vars, new_total_available_capacity,
                   unresponsive_servers, env_vars, obs_vars, alloc_vars>>

\* the downscale with an index scan that compares with >=: the last of the
\* servers with the highest capacity
DownscaleLastHighest ==
    /\ pc = "decide"
    /\ ~UpscaleCondition
    /\ DownscaleCondition
    /\ LET k == CHOOSE j \in 1 .. Len(available_servers) :
                 /\ \A m \in 1 .. Len(available_servers) :
                       available_capacity[available_servers[m]]
                           <= available_capacity[available_servers[j]]
                 /\ \A m \in (j + 1) .. Len(available_servers) :
                       available_capacity[available_servers[m]]
                           < available_capacity[available_servers[j]]
           s == available_servers[k]
       IN
          /\ available_servers' = Pop(available_servers, k)
          /\ total_available_capacity' = total_available_capacity - available_capacity[s]
          /\ standby_servers' = Append(standby_servers, s)
    /\ scale_log' = "Downscale"
    /\ ToEvict
    /\ UNCHANGED <<cfg_vars, inst_vars, srv_vars, new_total_available_capacity,
                   unresponsive_servers, env_vars, obs_vars, alloc_vars>>

\* s = self.available_servers.pop(self.get_available_server_index());
\* total -= s.available_capacity; self.standby_servers.append(s)
Downscale ==
    /\ pc = "decide"
    /\ ~UpscaleCondition
    /\ DownscaleCondition
    /\ LET s == available_servers[get_available_server_index] IN
          /\ available_servers' = Pop(available_servers, get_available_server_index)
          /\ total_available_capacity' = total_available_capacity - available_capacity[s]
          /\ standby_servers' = Append(standby_servers, s)
    /\ scale_log' = "Downscale"
    /\ ToEvict
    /\ UNCHANGED <<cfg_vars, inst_vars, srv_vars, new_total_available_capacity,
                   unresponsive_servers, env_vars, obs_vars, alloc_vars>>

\* neither branch taken
NoScale ==
    /\ pc = "decide"
    /\ ~UpscaleCondition
    /\ ~DownscaleCondition
    /\ ToEvict
    /\ UNCHANGED <<reg_vars, cfg_vars, inst_vars, srv_vars, new_total_available_capacity,
                   unresponsive_servers, scale_log, env_vars, obs_vars, alloc_vars>>

\* ------------------------------------------- run(): standby termination
\* if s.ready_to_close: self.remove_server(s)
EvictReadyToClose ==
    /\ pc = "evict"
    /\ i <= Len(standby_servers)
    /\ ready_to_close[standby_servers[i]]
    /\ \E ok \in BOOLEAN : remove_server(standby_servers[i], ok)
    /\ i' = i + 1
    /\ UNCHANGED <<reg_vars, cfg_vars, inst_vars, srv_vars, pc, loop_vars, next_task,
                   create_requests, obs_vars, alloc_vars>>

\* else: remaining_standby_servers.append(s)
EvictKeep ==
    /\ pc = "evict"
    /\ i <= Len(standby_servers)
    /\ ~ready_to_close[standby_servers[i]]
    /\ remaining_standby_servers' = Append(remaining_standby_servers, standby_servers[i])
    /\ i' = i + 1
    /\ UNCHANGED <<reg_vars, cfg_vars, inst_vars, srv_vars, pc, new_total_available_capacity,
                   unresponsive_servers, scale_log, env_vars, obs_vars, alloc_vars>>

\* the loop without the assignment that follows it
EvictCommitKeepsAll ==
    /\ pc = "evict"
    /\ i > Len(standby_servers)
    /\ remaining_standby_servers' = <<>>
    /\ pc' = "sleep"
    /\ closeable_at_start' = {}
    /\ UNCHANGED <<reg_vars, cfg_vars, inst_vars, srv_vars, i, new_total_available_capacity,
                   unresponsive_servers, scale_log, env_vars, poll_failed, reported_sum,
                   alloc_vars>>

\* self.standby_servers = remaining_standby_servers (the local name is rebound
\* to a fresh list before it is read again)
EvictCommit ==
    /\ pc = "evict"
    /\ i > Len(standby_servers)
    /\ standby_servers' = remaining_standby_servers
    /\ remaining_standby_servers' = <<>>
    /\ pc' = "sleep"
    /\ closeable_at_start' = {}
    /\ poll_failed' = poll_failed \cap (Range(available_servers) \cup Range(remaining_standby_servers))
    /\ UNCHANGED <<available_servers, total_available_capacity, cfg_vars, inst_vars, srv_vars, i,
                   new_total_available_capacity, unresponsive_servers, scale_log,
                   env_vars, reported_sum, alloc_vars>>

\* sleep(self.thread_sleep_time)
Sleep ==
    /\ pc = "sleep"
    /\ pc' = "grace"
    /\ i' = 1
    /\ UNCHANGED <<reg_vars, cfg_vars, inst_vars, srv_vars, loop_vars, env_vars, obs_vars, alloc_vars>>

\* ------------------------------------- run(): unresponsive servers re-polled
\* for s in unresponsive_servers: s.update_state() returned True
GraceOk ==
    /\ pc = "grace"
    /\ i <= Len(unresponsive_servers)
    /\ \E c \in health_capacities, r \in BOOLEAN :
          /\ update_state_ok(unresponsive_servers[i], c, r)
    /\ i' = i + 1
    /\ UNCHANGED <<reg_vars, cfg_vars, inst_vars, pc, loop_vars, env_vars, reported_sum,
                   closeable_at_start, alloc_vars>>

\* the removal without its elif branch
drop_from_available_only(s) ==
    /\ available_servers' =
          IF s \in Range(available_servers)
          THEN Remove(available_servers, s) ELSE available_servers
    /\ standby_servers' = standby_servers

\* if s in available: available.remove(s) elif s in standby: standby.remove(s)
drop_from_pools(s) ==
    /\ available_servers' =
          IF s \in Range(available_servers)
          THEN Remove(available_servers, s) ELSE available_servers
    /\ standby_servers' =
          IF s \notin Range(available_servers) /\ s \in Range(standby_servers)
          THEN Remove(standby_servers, s) ELSE standby_servers

\* remove_server() without its try/except: a failing terminate_ec2 ends run()
GraceFailedUncaught ==
    /\ pc = "grace"
    /\ i <= Len(unresponsive_servers)
    /\ \E r \in BOOLEAN : update_state_failed(unresponsive_servers[i], r)
    /\ drop_from_pools(unresponsive_servers[i])
    /\ \E ok \in BOOLEAN :
          /\ remove_server(unresponsive_servers[i], ok)
          /\ pc' = IF ok THEN pc ELSE "stopped"
    /\ i' = i + 1
    /\ UNCHANGED <<total_available_capacity, cfg_vars, inst_vars, available_capacity,
                   loop_vars, next_task, create_requests, reported_sum, closeable_at_start,
                   alloc_vars>>

\* s.update_state() returned False again: dropped from its list, remove_server(s)
GraceFailed ==
    /\ pc = "grace"
    /\ i <= Len(unresponsive_servers)
    /\ \E r \in BOOLEAN : update_state_failed(unresponsive_servers[i], r)
    /\ drop_from_pools(unresponsive_servers[i])
    /\ \E ok \in BOOLEAN : remove_server(unresponsive_servers[i], ok)
    /\ i' = i + 1
    /\ UNCHANGED <<total_available_capacity, cfg_vars, inst_vars, available_capacity, pc,
                   loop_vars, next_task, create_requests, reported_sum, closeable_at_start,
                   alloc_vars>>

\* Server objects something still refers to once unresponsive_servers is
\* rebound: the two lists and the Server a caller is decrementing. The others
\* are garbage: their fields are gone and nothing polls them again.
Referenced ==
    Range(available_servers) \cup Range(standby_servers)
        \cup {aobj[a] : a \in Allocators}

\* while(True): back to the top; new_total_available_capacity = 0,
\* unresponsive_servers = []
NextCycle ==
    /\ pc = "grace"
    /\ i > Len(unresponsive_servers)
    /\ pc' = "poll_active"
    /\ i' = 1
    /\ new_total_available_capacity' = 0
    /\ unresponsive_servers' = <<>>
    /\ scale_log' = "None"
    /\ create_requests' = 0
    /\ reported_sum' = 0
    /\ closeable_at_start' = {s \in Range(standby_servers) : ready_to_close[s]}
    /\ available_capacity' = [s \in Servers |->
          IF s \in Referenced THEN available_capacity[s] ELSE 0]
    /\ ready_to_close' = [s \in Servers |->
          IF s \in Referenced THEN ready_to_close[s] ELSE FALSE]
    /\ poll_failed' = poll_failed \cap Referenced
    /\ terminated' = terminated \cap Referenced
    /\ terminate_requests' = [s \in Servers |->
          IF s \in Referenced THEN terminate_requests[s] ELSE 0]
    /\ UNCHANGED <<reg_vars, cfg_vars, inst_vars, remaining_standby_servers, next_task, alloc_vars>>

\* ------------------------------------------------ get_available_server
ctl_vars == <<reg_vars, cfg_vars, inst_vars, pc, i, loop_vars, env_vars, obs_vars>>

\* max_available_server_index = self.get_available_server_index()
AllocIndex(a) ==
    /\ apc[a] = "idle"
    /\ calls_left > 0
    /\ calls_left' = calls_left - 1
    /\ aidx' = [aidx EXCEPT ![a] = get_available_server_index]
    /\ apc' = [apc EXCEPT ![a] = "indexed"]
    /\ UNCHANGED <<ctl_vars, srv_vars, aobj, aval, result>>

\* self.available_servers[index].available_capacity: the element and its
\* attribute are loaded
AllocLoad(a) ==
    /\ apc[a] = "indexed"
    /\ aidx[a] <= Len(available_servers)
    /\ aobj' = [aobj EXCEPT ![a] = available_servers[aidx[a]]]
    /\ aval' = [aval EXCEPT ![a] = available_capacity[available_servers[aidx[a]]]]
    /\ apc' = [apc EXCEPT ![a] = "loaded"]
    /\ UNCHANGED <<ctl_vars, srv_vars, aidx, result, calls_left>>

\* the access guarded so that an empty list yields None instead of raising
AllocLoadReturnsNone(a) ==
    /\ apc[a] = "indexed"
    /\ aidx[a] > Len(available_servers)
    /\ result' = [result EXCEPT ![a] = NoResult]
    /\ aidx' = [aidx EXCEPT ![a] = 0]
    /\ apc' = [apc EXCEPT ![a] = "returned"]
    /\ UNCHANGED <<ctl_vars, srv_vars, aobj, aval, calls_left>>

\* self.available_servers[index] raises IndexError: the call ends
AllocLoadRaises(a) ==
    /\ apc[a] = "indexed"
    /\ aidx[a] > Len(available_servers)
    /\ result' = [result EXCEPT ![a] = IndexError]
    /\ aidx' = [aidx EXCEPT ![a] = 0]
    /\ apc' = [apc EXCEPT ![a] = "returned"]
    /\ UNCHANGED <<ctl_vars, srv_vars, aobj, aval, calls_left>>

\* ... -= 1: the loaded value less one is stored in the loaded Server
AllocStore(a) ==
    /\ apc[a] = "loaded"
    /\ available_capacity' = [available_capacity EXCEPT ![aobj[a]] = aval[a] - 1]
    /\ aval' = [aval EXCEPT ![a] = 0]
    /\ apc' = [apc EXCEPT ![a] = "stored"]
    /\ UNCHANGED <<ctl_vars, ready_to_close, aidx, aobj, result, calls_left>>

\* return self.available_servers[max_available_server_index]
AllocReturn(a) ==
    /\ apc[a] = "stored"
    /\ result' = [result EXCEPT ![a] =
          IF aidx[a] <= Len(available_servers)
          THEN available_servers[aidx[a]] ELSE IndexError]
    /\ aidx' = [aidx EXCEPT ![a] = 0]
    /\ aobj' = [aobj EXCEPT ![a] = 0]
    /\ apc' = [apc EXCEPT ![a] = "returned"]
    /\ UNCHANGED <<ctl_vars, srv_vars, aval, calls_left>>

\* the caller has taken the returned Server (or the exception); the thread is
\* free for the next request
AllocDone(a) ==
    /\ apc[a] = "returned"
    /\ result' = [result EXCEPT ![a] = NoResult]
    /\ apc' = [apc EXCEPT ![a] = "idle"]
    /\ UNCHANGED <<ctl_vars, srv_vars, aidx, aobj, aval, calls_left>>

get_available_server(a) ==
    \/ AllocIndex(a)
    \/ AllocLoad(a)
    \/ AllocLoadRaises(a)
    \/ AllocStore(a)
    \/ AllocReturn(a)
    \/ AllocDone(a)

\* one step of ServerManagerThread.run
run ==
    \/ PollActiveOk
    \/ PollActiveFailed
    \/ AccumulateActive
    \/ CommitTotal
    \/ PollStandbyOk
    \/ PollStandbyFailed
    \/ UpscaleAddServer
    \/ UpscaleAddServerFailed
    \/ UpscaleRecall
    \/ Downscale
    \/ NoScale
    \/ EvictReadyToClose
    \/ EvictKeep
    \/ EvictCommit
    \/ Sleep
    \/ GraceOk
    \/ GraceFailed
    \/ NextCycle

Next ==
    \/ run
    \/ \E a \in Allocators : get_available_server(a)

Spec == Init /\ [][Next]_vars

\* ------------------------------------------------------ run() scheduled
\* run() is a thread of its own: the scheduler lets it take its next step, and
\* each external call it makes returns or raises. Request threads come and go
\* as they please. Game servers are empty or full: /health/ answers 0 or
\* MaxCapacity.
FairCapacities == {0, MaxCapacity}

InitFair ==
    /\ InitWith(MaxServers, 0 .. MaxInitServers, Margins, FairCapacities, MaxCalls)
    /\ InitMade

FairSpec == InitFair /\ [][Next]_vars /\ WF_vars(run)

\* ... and add_server(), asked again and again, succeeds in the end
ProvisionFairSpec == InitFair /\ [][Next]_vars /\ WF_vars(run) /\ SF_vars(UpscaleAddServer)

\* ------------------------------------------------- the loop on its own
\* run() with no request thread calling in, in a production-like setting:
\* UPSCALE_MARGIN 2 and DOWNSCALE_MARGIN 10, game servers that report 1, 8 or 9
\* free places, and room for MaxLoopServers tasks.
LoopMargins == {<<2, 10>>}
LoopCapacities == {1, 8, 9}

InitLoop ==
    /\ InitWith(MaxLoopServers, 0 .. MaxLoopServers, LoopMargins, LoopCapacities, 0)
    /\ InitMade

LoopSpec == InitLoop /\ [][run]_vars

\* ------------------------------------------- the request threads on their own
\* get_instance() hands out the ServerManagerThread as soon as it is
\* constructed; until start() is called on it (and whenever run() is inside
\* sleep) only the request threads take steps.
InitEarly ==
    /\ InitWith(MaxServers, 0 .. MaxInitServers, Margins, 0 .. MaxCapacity, MaxEarlyCalls)
    /\ InitMade

NextEarly == \E a \in Allocators : get_available_server(a)

SpecEarly == InitEarly /\ [][NextEarly]_vars

\* ------------------------------------- ServerManagerThread as a singleton
\* Threads of the process ask for the instance, through get_instance() or by
\* calling the class. The object a thread t constructs is named t. None of
\* the steps is guarded by a lock.
mgr_vars == <<reg_vars, cfg_vars, srv_vars, pc, i, loop_vars, env_vars, obs_vars, alloc_vars>>

\* get_instance(): if ServerManagerThread.__shared_instance == None
GetInstanceCheck(t) ==
    /\ gpc[t] = "idle"
    /\ gvia' = [gvia EXCEPT ![t] = "get_instance"]
    /\ gpc' = [gpc EXCEPT ![t] =
          IF shared_instance = NoInstance THEN "construct" ELSE "return"]
    /\ UNCHANGED <<mgr_vars, shared_instance, created, gresult>>

\* ServerManagerThread() called directly
DirectConstruct(t) ==
    /\ gpc[t] = "idle"
    /\ gvia' = [gvia EXCEPT ![t] = "direct"]
    /\ gpc' = [gpc EXCEPT ![t] = "construct"]
    /\ UNCHANGED <<mgr_vars, shared_instance, created, gresult>>

\* __init__: if self.__shared_instance == None holds; Thread.__init__(self)
InitCheck(t) ==
    /\ gpc[t] = "construct"
    /\ shared_instance = NoInstance
    /\ gpc' = [gpc EXCEPT ![t] = "init"]
    /\ UNCHANGED <<mgr_vars, shared_instance, created, gvia, gresult>>

\* __init__: else: raise Exception(...); through get_instance() the exception
\* reaches the caller as well
InitRaises(t) ==
    /\ gpc[t] = "construct"
    /\ shared_instance # NoInstance
    /\ gresult' = [gresult EXCEPT ![t] = SingletonError]
    /\ gpc' = [gpc EXCEPT ![t] = "done"]
    /\ UNCHANGED <<mgr_vars, shared_instance, created, gvia>>

\* ServerManagerThread.__shared_instance = self, and the rest of __init__
InitStore(t) ==
    /\ gpc[t] = "init"
    /\ shared_instance' = t
    /\ created' = created \cup {t}
    /\ gpc' = [gpc EXCEPT ![t] = IF gvia[t] = "direct" THEN "done" ELSE "return"]
    /\ gresult' = [gresult EXCEPT ![t] = IF gvia[t] = "direct" THEN t ELSE @]
    /\ UNCHANGED <<mgr_vars, gvia>>

\* get_instance(): return ServerManagerThread.__shared_instance
GetInstanceReturn(t) ==
    /\ gpc[t] = "return"
    /\ gresult' = [gresult EXCEPT ![t] = shared_instance]
    /\ gpc' = [gpc EXCEPT ![t] = "done"]
    /\ UNCHANGED <<mgr_vars, shared_instance, created, gvia>>

\* the process before any ServerManagerThread exists; the fields are those the
\* first construction will set
InitProcess ==
    /\ InitWith(MaxServers, 0 .. MaxInitServers, Margins, 0 .. MaxCapacity, 0)
    /\ shared_instance = NoInstance
    /\ created = {}
    /\ gpc = [t \in Callers |-> "idle"]
    /\ gvia = [t \in Callers |-> "none"]
    /\ gresult = [t \in Callers |-> NoResult]

NextProcess ==
    \E t \in Callers :
        \/ GetInstanceCheck(t)
        \/ DirectConstruct(t)
        \/ InitCheck(t)
        \/ InitRaises(t)
        \/ InitStore(t)
        \/ GetInstanceReturn(t)

SpecProcess == InitProcess /\ [][NextProcess]_vars

\* ======================================================================
\* Properties
\* ======================================================================
Pools == Range(available_servers) \cup Range(standby_servers)

\* the step of run() that commits the aggregate (line 171)
CommitStep == pc = "poll_active" /\ i > Len(available_servers) /\ pc' # pc
\* the step of run() that takes the scale decision (lines 181-198)
DecideStep == pc = "decide" /\ pc' # pc
\* the step of run() that ends the standby termination loop (line 210)
EvictCommitStep == pc = "evict" /\ pc' = "sleep"
\* a step of the re-poll loop after the sleep (lines 216-222)
GraceStep == pc = "grace" /\ i <= Len(unresponsive_servers) /\ i' = i + 1

\* C1: the aggregate committed after the poll phase is the sum of the
\* capacities the active servers reported in this cycle, a failed poll
\* counting 0 and standby servers nothing.
C1_CommittedAggregateIsReportedSum ==
    [][CommitStep => total_available_capacity' = reported_sum]_vars

\* C2: a cycle upscales iff the committed aggregate is below upscale_margin,
\* downscales iff it is above downscale_margin with at least 2 active servers,
\* and, the margins being ordered, never does both: the two conditions exclude
\* each other, an upscale shrinks no pool of active servers and a downscale
\* grows none.
C2_ScaleDecision ==
    [][DecideStep =>
        /\ (scale_log' = "Upscale") <=> (total_available_capacity < upscale_margin)
        /\ (scale_log' = "Downscale") <=>
              (total_available_capacity > downscale_margin /\ Len(available_servers) >= 2)
        /\ ~(total_available_capacity < upscale_margin
               /\ total_available_capacity > downscale_margin)
        /\ scale_log' = "Upscale" =>
              /\ Len(available_servers') >= Len(available_servers)
              /\ Len(standby_servers') <= Len(standby_servers)
        /\ scale_log' = "Downscale" =>
              /\ Len(available_servers') < Len(available_servers)
              /\ Len(standby_servers') > Len(standby_servers)
        /\ scale_log' = "None" =>
              /\ available_servers' = available_servers
              /\ standby_servers' = standby_servers]_vars

C2_Witness ==
    /\ pc = "evict"
    /\ i = 1
    /\ scale_log = "Upscale"
    /\ upscale_margin < downscale_margin
    /\ Len(available_servers) = 2

\* C3: a downscale step starts from at least 2 active servers, takes exactly
\* one of them out (into standby) and so leaves at least 1.
C3_DownscaleKeepsOneActive ==
    [][DecideStep /\ (scale_log' = "Downscale"
                         \/ Len(available_servers') < Len(available_servers)) =>
        /\ Len(available_servers) >= 2
        /\ Len(available_servers') = Len(available_servers) - 1
        /\ Len(available_servers') >= 1
        /\ Range(available_servers') \subseteq Range(available_servers)
        /\ Cardinality(Range(available_servers) \ Range(available_servers')) = 1
        /\ Range(standby_servers') =
              Range(standby_servers)
                  \cup (Range(available_servers) \ Range(available_servers'))]_vars

C3_Witness ==
    /\ pc = "evict"
    /\ scale_log = "Downscale"
    /\ Len(available_servers) = 1
    /\ Len(standby_servers) >= 1

C5_AllocatePicksPositiveMax ==
    [][\A a \in Allocators :
          /\ (apc[a] = "loaded" /\ apc'[a] = "stored"
                 /\ \E s \in Range(available_servers) : available_capacity[s] > 0) =>
                 /\ available_capacity[aobj[a]] > 0
                 /\ aobj[a] \in Range(available_servers)
                 /\ aobj[a] = available_servers[get_available_server_index]
          /\ (apc[a] = "stored" /\ apc'[a] = "returned") =>
                 result'[a] = aobj[a]]_vars

\* C6: a get_available_server() call that finds the active list empty ends
\* with the error (Python's IndexError, raised by the list access), returns no
\* Server, and changes neither list nor any server's fields.
C6_AllocateOnEmptyPoolFails ==
    [][\A a \in Allocators :
          /\ (apc[a] = "idle" /\ apc'[a] = "indexed" /\ Len(available_servers) = 0) =>
                 UNCHANGED <<reg_vars, srv_vars>>
          /\ (apc[a] = "indexed" /\ apc'[a] # "indexed" /\ Len(available_servers) = 0) =>
                 /\ apc'[a] = "returned"
                 /\ result'[a] = IndexError
                 /\ result'[a] \notin Servers
                 /\ UNCHANGED <<reg_vars, srv_vars>>]_vars

C6_Witness ==
    \E a \in Allocators :
        /\ apc[a] = "returned"
        /\ result[a] = IndexError
        /\ Len(available_servers) = 0
        /\ Len(standby_servers) = 0
        /\ \A s \in Servers : available_capacity[s] = 0

\* C7 as stated: every server in standby with ready_to_close at the start of
\* a cycle has had terminate_ec2 called for it and is out of standby when that
\* cycle's termination loop ends, whatever the scale decision was.
C7_CloseableAtStartIsEvicted ==
    [][EvictCommitStep =>
          \A s \in closeable_at_start :
              /\ s \notin Range(standby_servers')
              /\ terminate_requests[s] >= 1]_vars

\* C7 amended: every server in standby with ready_to_close at the start of a
\* cycle whose flag is still set after the cycle's poll phase and which the
\* cycle's upscale did not move back to the active list has had terminate_ec2
\* called for it and is out of standby when the termination loop ends.
C7_StillCloseableIsEvicted ==
    [][EvictCommitStep =>
          \A s \in closeable_at_start :
              (ready_to_close[s] /\ s \in Range(standby_servers)) =>
                  /\ s \notin Range(standby_servers')
                  /\ s \notin Range(available_servers')
                  /\ terminate_requests[s] >= 1]_vars

C7_Witness ==
    /\ pc = "evict"
    /\ i > Len(standby_servers)
    /\ \E s \in closeable_at_start :
          /\ ready_to_close[s]
          /\ s \in Range(standby_servers)
          /\ s \notin Range(remaining_standby_servers)
          /\ terminate_requests[s] >= 1

\* C8: available_capacity of every server is non-negative in every state.
C8_CapacityNonNegative ==
    \A s \in Servers : available_capacity[s] >= 0

\* C9: a server whose most recent poll failed counts as capacity 0: when the
\* upscale step moves it from standby back to the active list it adds no
\* positive amount to the aggregate and does not enter the active list with
\* positive available_capacity.
C9_FailedPollAddsNoCapacity ==
    [][(DecideStep /\ Len(standby_servers) > 0
           /\ Len(available_servers') > Len(available_servers)
           /\ Head(standby_servers) \in poll_failed) =>
          /\ total_available_capacity' <= total_available_capacity
          /\ available_capacity'[Head(standby_servers)] <= 0]_vars

\* C10: in every state no server is in both lists, and no server for which
\* terminate_ec2 has been called is in either list.
C10_PoolsDisjointNoTerminatedMember ==
    /\ Range(available_servers) \cap Range(standby_servers) = {}
    /\ \A s \in Pools : terminate_requests[s] = 0

\* sum of available_capacity over a set of servers
RECURSIVE SumCapacity(_)
SumCapacity(S) ==
    IF S = {} THEN 0
    ELSE LET s == CHOOSE x \in S : TRUE
         IN  available_capacity[s] + SumCapacity(S \ {s})

\* C11: no decrement is lost: with no poll in between (run() takes no step),
\* once every call made so far has returned, the calls on a non-empty list of
\* servers, all constructed with capacity 0, have lowered the capacities by
\* exactly their number.
C11_NoDecrementLost ==
    ((\A a \in Allocators : apc[a] = "idle") /\ Len(available_servers) > 0) =>
        SumCapacity(Range(available_servers)) = 0 - (MaxEarlyCalls - calls_left)

\* C12: at most one ServerManagerThread is ever created, every get_instance()
\* call that has ended returned that one object (none raised, no two returned
\* different objects), and a direct construction that returned an object
\* returned the only one there is.
C12_OneController ==
    /\ Cardinality(created) <= 1
    /\ \A t \in Callers :
          (gpc[t] = "done" /\ gvia[t] = "get_instance") => gresult[t] \in created
    /\ \A t \in Callers :
          (gpc[t] = "done" /\ gvia[t] = "direct" /\ gresult[t] # SingletonError) =>
              created = {gresult[t]}

\* C13: when add_server() fails (it was called and no Server came out of it)
\* both lists are as they were before that upscale step; and in every state the
\* lists hold, and get_available_server() returns, only servers whose
\* construction was completed.
C13_FailedCreationAddsNothing ==
    /\ [][(DecideStep /\ create_requests' > create_requests /\ next_task' = next_task) =>
            (available_servers' = available_servers /\ standby_servers' = standby_servers)]_vars
    /\ [](/\ \A s \in Pools : s < next_task
          /\ \A a \in Allocators : result[a] \in Servers => result[a] < next_task)

\* add_server() has failed in a cycle that found its one server unresponsive
C13_Witness ==
    /\ pc = "evict"
    /\ create_requests = 1
    /\ available_servers = <<1>>
    /\ next_task = 2
    /\ 1 \in poll_failed

\* the order in which run() goes through its phases
CycleOrder ==
    {<<"poll_active", "acc_active">>, <<"acc_active", "poll_active">>,
     <<"poll_active", "poll_standby">>, <<"poll_active", "decide">>,
     <<"poll_standby", "decide">>, <<"decide", "evict">>, <<"evict", "sleep">>,
     <<"sleep", "grace">>, <<"grace", "poll_active">>}

C15_EmptyPoolIsRefilled ==
    (Len(available_servers) = 0 /\ next_task <= cluster_size)
        ~> (Len(available_servers) > 0)

\* C15, amended: the same for every configuration with upscale_margin >= 1.
C15_EmptyPoolIsRefilledPositiveMargin ==
    (Len(available_servers) = 0 /\ next_task <= cluster_size /\ upscale_margin >= 1)
        ~> (Len(available_servers) > 0)

\* the upscale step has just put a newly created server in the empty list
C15_Witness ==
    /\ pc = "evict"
    /\ upscale_margin >= 1
    /\ create_requests = 1
    /\ available_servers = <<next_task - 1>>
    /\ total_available_capacity = 0
    /\ poll_failed = {}

\* C16: a server whose terminate_ec2 call failed stays in one of the two lists,
\* so that a later cycle asks for its termination again, until a call succeeds.
C16_FailedDestroyStaysTracked ==
    \A s \in Servers :
        (terminate_requests[s] > 0 /\ s \notin terminated) => s \in Pools

\* C17: an upscale step that finds standby servers moves exactly the first of
\* them to the end of the active list, adds its available_capacity to the
\* aggregate and calls add_server() not at all; one that finds none calls
\* add_server() exactly once, leaves the aggregate and the standby list alone,
\* and when the call succeeds the active list has grown by exactly one new
\* server, of capacity 0, at its end. With margins 2 and 10, one active server
\* that reported 1 and no standby server, a successful call leaves 2 active
\* servers.
C17_UpscaleStep ==
    [][(DecideStep /\ total_available_capacity < upscale_margin) =>
        /\ Len(standby_servers) > 0 =>
              /\ available_servers' = Append(available_servers, Head(standby_servers))
              /\ standby_servers' = Tail(standby_servers)
              /\ total_available_capacity' =
                    total_available_capacity + available_capacity[Head(standby_servers)]
              /\ create_requests' = create_requests
        /\ Len(standby_servers) = 0 =>
              /\ create_requests' = create_requests + 1
              /\ standby_servers' = standby_servers
              /\ total_available_capacity' = total_available_capacity
              /\ \/ available_servers' = available_servers
                 \/ \E s \in Servers \ Pools :
                       /\ available_servers' = Append(available_servers, s)
                       /\ available_capacity'[s] = 0
        /\ (/\ upscale_margin = 2 /\ downscale_margin = 10
            /\ Len(available_servers) = 1 /\ total_available_capacity = 1
            /\ Len(standby_servers) = 0
            /\ available_servers' # available_servers) =>
              Len(available_servers') = 2]_vars

\* margins 2 and 10: the cycle found one active server, which reported 1, and
\* no standby server, and its add_server() call succeeded
C17_Witness ==
    /\ pc = "evict"
    /\ upscale_margin = 2 /\ downscale_margin = 10
    /\ create_requests = 1
    /\ Len(available_servers) = 2
    /\ Len(standby_servers) = 0
    /\ total_available_capacity = 1
    /\ available_capacity[available_servers[1]] = 1
    /\ available_capacity[available_servers[2]] = 0
    /\ poll_failed = {}

\* C18: a downscale step moves exactly one active server to the end of the
\* standby list: one with the highest available_capacity, the first of those
\* in list order; it lowers the aggregate by that server's available_capacity
\* and leaves the other active servers in place and order. With
\* downscale_margin 10 and two active servers of capacities 8 and 9, the one
\* with 9 moves and the aggregate becomes 8.
C18_DownscaleStep ==
    [][(DecideStep /\ ~(total_available_capacity < upscale_margin)
           /\ total_available_capacity > downscale_margin
           /\ Len(available_servers) > 1) =>
        /\ \E k \in 1 .. Len(available_servers) :
              /\ \A m \in 1 .. Len(available_servers) :
                    available_capacity[available_servers[m]]
                        <= available_capacity[available_servers[k]]
              /\ \A m \in 1 .. (k - 1) :
                    available_capacity[available_servers[m]]
                        < available_capacity[available_servers[k]]
              /\ available_servers' =
                    SubSeq(available_servers, 1, k - 1)
                        \o SubSeq(available_servers, k + 1, Len(available_servers))
              /\ standby_servers' = Append(standby_servers, available_servers[k])
              /\ total_available_capacity' =
                    total_available_capacity - available_capacity[available_servers[k]]
        /\ (/\ downscale_margin = 10
            /\ Len(available_servers) = 2
            /\ total_available_capacity = 17
            /\ {available_capacity[available_servers[m]] : m \in 1 .. 2} = {8, 9}) =>
              /\ available_capacity[standby_servers'[Len(standby_servers')]] = 9
              /\ total_available_capacity' = 8]_vars

\* downscale_margin 10: of two active servers that reported 8 and 9 the one
\* with 9 has just been moved to standby and the aggregate is 8
C18_Witness ==
    /\ pc = "evict"
    /\ i = 1
    /\ downscale_margin = 10
    /\ scale_log = "Downscale"
    /\ total_available_capacity = 8
    /\ Len(available_servers) = 1
    /\ available_capacity[available_servers[1]] = 8
    /\ Len(standby_servers) >= 1
    /\ available_capacity[standby_servers[Len(standby_servers)]] = 9

\* C19: terminate_ec2 is called at most once for any server; in particular a
\* server terminated by the standby loop is not terminated again by the
\* re-poll loop after the sleep.
C19_TerminatedAtMostOnce ==
    \A s \in Servers : terminate_requests[s] <= 1

\* C20: whatever run() and other callers do in between, the server a
\* get_available_server() call returns is the one whose available_capacity it
\* decremented; in particular a call that has decremented a server does not
\* end with an exception.
C20_ReturnsDecrementedServer ==
    [][\A a \in Allocators :
          (apc[a] = "stored" /\ apc'[a] = "returned") => result'[a] = aobj[a]]_vars

====
